---- MODULE Spec2Model ----
(***************************************************************************)
(* Model of metabase_daily_export_and_email.py: one run of main().         *)
(* The run authenticates, resolves each card's name, exports each card to  *)
(* a CSV file in a temporary directory, zips the files, mails the archive  *)
(* and finally deletes the files it recorded.                              *)
(*                                                                         *)
(* The remote reporting API, the local file system and the SMTP server are *)
(* the environment: every HTTP attempt draws its response from Responses,  *)
(* every local write, packaging, delivery and deletion draws its outcome   *)
(* nondeterministically.  A metadata response with status 2xx is taken to  *)
(* carry a JSON object whose "name", when present, is a string.            *)
(***************************************************************************)
EXTENDS Integers, Sequences, FiniteSets, TLC

\* ---------- Program constants (lines 24-32) ----------
MAX_ATTEMPTS == 5
INITIAL_BACKOFF == 3
BACKOFF_BASE == 2

\* ---------- Bounds of the model ----------
\* CARD_IDS is configuration; the model ranges over the lists of the first
\* 0..MaxCards card ids.
MaxCards == 2

FirstCardId == 8266

\* The card id list of length n: 8266, 8267, ...
CardList(n) == [i \in 1..n |-> FirstCardId + i - 1]

\* ---------- Text: names are sequences of one-character strings ----------
AlnumChars == {"A", "B", "C", "a", "r", "d",
               "0", "1", "2", "3", "4", "5", "6", "7", "8", "9"}

IsAlnum(c) == c \in AlnumChars

\* The names the remote may return for a card ("A", "_A ", "A -B").
RemoteNames == { <<"A">>, <<"_", "A", " ">>, <<"A", " ", "-", "B">> }

\* The metadata response carries no "name" key.
NoName == <<"<absent>">>

DigitChar(d) == <<"0", "1", "2", "3", "4", "5", "6", "7", "8", "9">>[d + 1]

RECURSIVE Digits(_)
\* str(n) for n >= 0, as a sequence of digit characters
Digits(n) == IF n < 10 THEN <<DigitChar(n)>>
             ELSE Digits(n \div 10) \o <<DigitChar(n % 10)>>

\* data.get("name", f"Card_{card_id}")   (line 57)
FallbackName(card_id) == <<"C", "a", "r", "d", "_">> \o Digits(card_id)

ResolveNameNoDefault(name, card_id) == name

ResolveName(name, card_id) == IF name = NoName THEN FallbackName(card_id) ELSE name

RECURSIVE SkipNonAlnum(_)
SkipNonAlnum(s) == IF s = <<>> \/ IsAlnum(Head(s)) THEN s ELSE SkipNonAlnum(Tail(s))

RECURSIVE SubNonAlnum(_)
\* re.sub(r'[^A-Za-z0-9]+', '_', name): each maximal run of non-alphanumerics
\* becomes one underscore
SubNonAlnum(s) ==
    IF s = <<>> THEN <<>>
    ELSE IF IsAlnum(Head(s)) THEN <<Head(s)>> \o SubNonAlnum(Tail(s))
    ELSE <<"_">> \o SubNonAlnum(SkipNonAlnum(s))

RECURSIVE StripLeft(_)
StripLeft(s) == IF s # <<>> /\ Head(s) = "_" THEN StripLeft(Tail(s)) ELSE s

RECURSIVE StripRight(_)
StripRight(s) == IF s # <<>> /\ s[Len(s)] = "_"
                 THEN StripRight(SubSeq(s, 1, Len(s) - 1)) ELSE s

\* .strip('_')
Strip(s) == StripRight(StripLeft(s))

\* clean_filename (lines 35-37)
clean_filename(name) == Strip(SubNonAlnum(name))

\* The directory mkdtemp returns (line 143); its name differs from run to run.
\* A path is the directory followed by the characters of the file name.
TmpDir == "<tmpdir>/"

\* os.path.join(tmpdir, f"{clean_name}.csv")   (line 151)
CsvPath(clean_name) == <<TmpDir>> \o clean_name \o <<".csv">>

\* os.path.join(tmpdir, f"VI_Daily_Reports_{date}.zip")   (lines 160-163)
ZipPath == <<TmpDir, "VI_Daily_Reports_", "<YYYYMMDD>", ".zip">>

\* os.path.basename of a file in tmpdir   (line 107)
BasenameKeepsDir(p) == p

Basename(p) == Tail(p)

\* ---------- Retry policy ----------
Responses == {"ok", "4xx", "5xx", "neterr"}

\* `except requests.exceptions.RequestException` (lines 58, 96): HTTPError from
\* raise_for_status (4xx and 5xx), ConnectionError and Timeout are all caught.
Caught(resp) == resp \in {"4xx", "5xx", "neterr"}

\* `if attempt >= MAX_ATTEMPTS: raise`   (lines 60, 97)
ExhaustedOneEarly(a) == a >= MAX_ATTEMPTS - 1

ExhaustedOneLate(a) == a > MAX_ATTEMPTS

Exhausted(a) == a >= MAX_ATTEMPTS

RECURSIVE Pow(_, _)
Pow(b, e) == IF e = 0 THEN 1 ELSE b * Pow(b, e - 1)

\* wait = INITIAL_BACKOFF * (BACKOFF_BASE ** (attempt - 1))   (lines 63, 100)
BackoffOffByOne(a) == INITIAL_BACKOFF * Pow(BACKOFF_BASE, a)

Backoff(a) == INITIAL_BACKOFF * Pow(BACKOFF_BASE, a - 1)

\* ---------- State ----------
VARIABLES
    apiKey,       \* METABASE_API_KEY is set and non-empty
    smtpCreds,    \* SMTP_HOST, SMTP_USER and SMTP_PASS are all set
    cardIds,      \* CARD_IDS
    pc,           \* position of main()
    idx,          \* number of cards whose loop body has completed
    attempt,      \* `attempt` of the running retry loop
    reply,        \* "name" of the metadata response just received, <<>> otherwise
    card_name,    \* main's card_name
    csv_path,     \* main's csv_path
    csv_paths,    \* main's csv_paths
    zip_bound,    \* main's zip_path has been assigned
    exc,          \* the exception propagating out of the try block, or "none"
    tmpdir,       \* the temporary directory exists
    disk,         \* the files in tmpdir: path -> content
    op,           \* the retry loop entered last, "none" outside the for loop
    log,          \* requests and sleeps of that retry loop, in order; kept
                  \* until main leaves the for loop or runs its finally block
    names,        \* the names resolved so far, one per card
    failedOp,     \* the retry loop an error has left, or "none"
    raises,       \* number of exceptions that reached main's try block
    zipCalls,     \* calls of make_zip
    zipOk,        \* make_zip has returned normally
    emailCalls,   \* calls of send_email
    emails,       \* attachments delivered
    delFailed,    \* some os.remove of an existing file failed in cleanup
    httpRequests, \* HTTP requests issued by the run
    sleepCount    \* backoff sleeps of the run

vars == <<apiKey, smtpCreds, cardIds, pc, idx, attempt, reply, card_name, csv_path,
          csv_paths, zip_bound, exc, tmpdir, disk, op, log, names, failedOp,
          raises, zipCalls, zipOk, emailCalls, emails, delFailed,
          httpRequests, sleepCount>>

config == <<apiKey, smtpCreds, cardIds>>
ghost == <<zipCalls, zipOk, emailCalls, emails, delFailed>>
totals == <<httpRequests, sleepCount>>

EmptyDisk == [p \in {} |-> 0]

ReqEvent(resp) == [ev |-> "req", resp |-> resp, wait |-> 0]
SleepEvent(w) == [ev |-> "sleep", resp |-> "", wait |-> w]

\* Content of a CSV file holding the export of `card`
CsvFile(card, complete) == [card |-> card, complete |-> complete, members |-> <<>>]

\* Content of an archive
ZipFile(members, complete) == [card |-> 0, complete |-> complete, members |-> members]

\* The file system after writing `content` to `path`
WriteFile(d, path, content) ==
    [p \in DOMAIN d \cup {path} |-> IF p = path THEN content ELSE d[p]]

\* The file system without the files in `gone`
RemoveFiles(d, gone) == [p \in DOMAIN d \ gone |-> d[p]]

Range(s) == {s[i] : i \in DOMAIN s}

Init ==
    /\ apiKey \in BOOLEAN
    /\ smtpCreds \in BOOLEAN
    /\ cardIds \in {CardList(n) : n \in 0..MaxCards}
    /\ pc = "make_session"
    /\ idx = 0
    /\ attempt = 0
    /\ reply = <<>>
    /\ card_name = <<>>
    /\ csv_path = <<>>
    /\ csv_paths = <<>>
    /\ zip_bound = FALSE
    /\ exc = "none"
    /\ tmpdir = FALSE
    /\ disk = EmptyDisk
    /\ op = "none"
    /\ log = <<>>
    /\ names = <<>>
    /\ failedOp = "none"
    /\ raises = 0
    /\ zipCalls = 0
    /\ zipOk = FALSE
    /\ emailCalls = 0
    /\ emails = <<>>
    /\ delFailed = FALSE
    /\ httpRequests = 0
    /\ sleepCount = 0

\* ---------- main, line 142: session = make_session() ----------
make_session_unchecked ==
    /\ pc = "make_session"
    /\ pc' = "mkdtemp"
    /\ UNCHANGED <<config, reply, idx, attempt, card_name, csv_path, csv_paths,
                   zip_bound, exc, tmpdir, disk, op, log, names, failedOp,
                   raises, ghost>>
    /\ UNCHANGED totals

make_session ==
    /\ pc = "make_session"
    /\ IF ~apiKey
       THEN \* RuntimeError leaves main before the try block
            /\ pc' = "failed"
            /\ exc' = "RuntimeError"
       ELSE /\ pc' = "mkdtemp"
            /\ exc' = exc
    /\ UNCHANGED <<config, reply, idx, attempt, card_name, csv_path, csv_paths,
                   zip_bound, tmpdir, disk, op, log, names, failedOp,
                   raises, ghost>>
    /\ UNCHANGED totals

\* ---------- main, lines 143-144: tmpdir = mkdtemp(); csv_paths = [] ----------
mkdtemp ==
    /\ pc = "mkdtemp"
    /\ \E created \in BOOLEAN :
         IF created
         THEN /\ tmpdir' = TRUE
              /\ csv_paths' = <<>>
              /\ pc' = "for"
              /\ exc' = exc
         ELSE \* OSError leaves main before the try block
              /\ pc' = "failed"
              /\ exc' = "OSError"
              /\ UNCHANGED <<tmpdir, csv_paths>>
    /\ UNCHANGED <<config, reply, idx, attempt, card_name, csv_path, zip_bound,
                   disk, op, log, names, failedOp, raises, ghost>>
    /\ UNCHANGED totals

\* ---------- main, line 147: for cid in CARD_IDS ----------
LoopDoneOneEarly == idx >= Len(cardIds) - 1

LoopDone == idx >= Len(cardIds)

\* The next card: enter get_card_name (line 49: attempt = 0), or leave the loop
for_next ==
    /\ pc = "for"
    /\ IF LoopDone
       THEN \* the locals of the last retry loop are gone
            /\ pc' = "make_zip"
            /\ attempt' = 0
            /\ op' = "none"
            /\ log' = <<>>
       ELSE /\ pc' = "get_card_name"
            /\ attempt' = 0
            /\ op' = "get_card_name"
            /\ log' = <<>>
    /\ UNCHANGED <<config, reply, idx, card_name, csv_path, csv_paths, zip_bound, exc,
                   tmpdir, disk, names, failedOp, raises, ghost>>
    /\ UNCHANGED totals

\* An exception leaves a retry loop and reaches main's try block (lines 62, 99)
RaiseToMainSwallowed(e) ==
    /\ pc' = "for"
    /\ idx' = idx + 1
    /\ exc' = exc
    /\ raises' = raises

RaiseToMain(e) ==
    /\ pc' = "finally"
    /\ idx' = idx
    /\ exc' = e
    /\ raises' = raises + 1

\* ---------- get_card_name, lines 50-65: one iteration of the while loop ----------
get_card_name ==
    /\ pc = "get_card_name"
    /\ attempt < MAX_ATTEMPTS
    /\ attempt' = attempt + 1
    /\ httpRequests' = httpRequests + 1
    /\ \E resp \in Responses :
         IF ~Caught(resp)
         THEN \* lines 54-57: return the name
              \E name \in RemoteNames \cup {NoName} :
                 /\ reply' = name
                 /\ card_name' = ResolveName(name, cardIds[idx + 1])
                 /\ log' = Append(log, ReqEvent(resp))
                 /\ pc' = "name_resolved"
                 /\ UNCHANGED <<idx, exc, raises, failedOp, sleepCount>>
         ELSE IF Exhausted(attempt')
         THEN \* lines 60-62: raise
              /\ log' = Append(log, ReqEvent(resp))
              /\ failedOp' = "get_card_name"
              /\ RaiseToMain("RequestException")
              /\ UNCHANGED <<reply, card_name, sleepCount>>
         ELSE \* lines 63-65: sleep, then the next iteration
              /\ log' = log \o <<ReqEvent(resp), SleepEvent(Backoff(attempt'))>>
              /\ sleepCount' = sleepCount + 1
              /\ UNCHANGED <<pc, idx, exc, raises, failedOp, reply, card_name>>
    /\ UNCHANGED <<config, csv_path, csv_paths, zip_bound, tmpdir, disk, op,
                   names, ghost>>

\* ---------- main, lines 150-156: clean name, path, enter download_card_csv ----------
name_resolved ==
    /\ pc = "name_resolved"
    /\ csv_path' = CsvPath(clean_filename(card_name))
    /\ names' = Append(names, card_name)
    /\ reply' = <<>>
    /\ pc' = "download_card_csv"
    /\ attempt' = 0
    /\ op' = "download_card_csv"
    /\ log' = <<>>
    /\ UNCHANGED <<config, idx, card_name, csv_paths, zip_bound, exc, tmpdir,
                   disk, failedOp, raises, ghost>>
    /\ UNCHANGED totals

\* Outcome of `with open(out_path, "wb") as f: f.write(r.content)` (lines 91-92)
WriteOutcomes == {"written", "open_fails", "write_fails"}

\* The local write is reached only by a response that passed raise_for_status
LocalOutcomes(resp) == IF Caught(resp) THEN {"not_reached"} ELSE WriteOutcomes

\* What lines 89-95 end with: a RequestException from the request or from
\* raise_for_status, an OSError from the local write, or a normal return
AttemptResult(resp, w) ==
    IF Caught(resp) THEN "RequestException"
    ELSE IF w = "written" THEN "none"
    ELSE "OSError"

\* The except clause of the retry loops (lines 58, 96) handles
\* requests.exceptions.RequestException only
HandledAnyException(e) == TRUE

Handled(e) == e = "RequestException"

\* The files after one attempt of download_card_csv for `card` (lines 89-92):
\* the destination is opened only once the response has passed
\* raise_for_status; a write that fails leaves it partly written
DiskAfterAttemptOpenFirst(resp, w, card) ==
    IF ~Caught(resp) /\ w = "written"
    THEN WriteFile(disk, csv_path, CsvFile(card, TRUE))
    ELSE WriteFile(disk, csv_path, CsvFile(card, FALSE))

DiskAfterAttempt(resp, w, card) ==
    IF Caught(resp) \/ w = "open_fails" THEN disk
    ELSE WriteFile(disk, csv_path, CsvFile(card, w = "written"))

\* ---------- download_card_csv, lines 85-102: one iteration; on return,
\* main line 157 appends the path ----------
download_card_csv ==
    /\ pc = "download_card_csv"
    /\ attempt < MAX_ATTEMPTS
    /\ attempt' = attempt + 1
    /\ httpRequests' = httpRequests + 1
    /\ \E resp \in Responses : \E w \in LocalOutcomes(resp) :
         LET e == AttemptResult(resp, w) IN
         /\ disk' = DiskAfterAttempt(resp, w, cardIds[idx + 1])
         /\ IF e = "none"
            THEN \* lines 93-95: return; main line 157 appends the path
                 /\ log' = Append(log, ReqEvent(resp))
                 /\ csv_paths' = Append(csv_paths, csv_path)
                 /\ pc' = "for"
                 /\ idx' = idx + 1
                 /\ UNCHANGED <<exc, raises, failedOp, sleepCount>>
            ELSE IF ~Handled(e) \/ Exhausted(attempt')
            THEN \* the exception leaves the function (not caught, or line 99)
                 /\ log' = Append(log, ReqEvent(resp))
                 /\ failedOp' = "download_card_csv"
                 /\ RaiseToMain(e)
                 /\ UNCHANGED <<csv_paths, sleepCount>>
            ELSE \* lines 100-102: sleep, then the next iteration
                 /\ log' = log \o <<ReqEvent(resp), SleepEvent(Backoff(attempt'))>>
                 /\ sleepCount' = sleepCount + 1
                 /\ UNCHANGED <<pc, idx, exc, raises, failedOp, csv_paths>>
    /\ UNCHANGED <<config, reply, card_name, csv_path, zip_bound, tmpdir, op,
                   names, ghost>>

\* ---------- make_zip (lines 104-107), called at main lines 160-164 ----------
\* The members written for `files`: each under its base name, with the content
\* the file has on disk
ZipMembers(files) ==
    [i \in 1..Len(files) |->
        [name |-> Basename(files[i]), card |-> disk[files[i]].card,
         complete |-> disk[files[i]].complete]]

ZipOutcomes == {"zipped", "open_fails", "write_fails"}

make_zip ==
    /\ pc = "make_zip"
    /\ zip_bound' = TRUE
    /\ zipCalls' = zipCalls + 1
    /\ \E z \in ZipOutcomes :
         IF z = "zipped" /\ Range(csv_paths) \subseteq DOMAIN disk
         THEN /\ disk' = WriteFile(disk, ZipPath, ZipFile(ZipMembers(csv_paths), TRUE))
              /\ zipOk' = TRUE
              /\ pc' = "send_email"
              /\ UNCHANGED <<exc, raises>>
         ELSE /\ disk' = IF z = "open_fails" THEN disk
                         ELSE WriteFile(disk, ZipPath, ZipFile(<<>>, FALSE))
              /\ zipOk' = FALSE
              /\ pc' = "finally"
              /\ exc' = "OSError"
              /\ raises' = raises + 1
    /\ UNCHANGED <<config, reply, idx, attempt, card_name, csv_path, csv_paths, tmpdir,
                   op, log, names, failedOp, emailCalls, emails, delFailed>>
    /\ UNCHANGED totals

\* ---------- send_email (lines 109-138), called at main line 167 ----------
send_email ==
    /\ pc = "send_email"
    /\ emailCalls' = emailCalls + 1
    /\ \E delivered \in BOOLEAN :
         IF delivered /\ smtpCreds /\ ZipPath \in DOMAIN disk
         THEN /\ emails' = Append(emails, disk[ZipPath])
              /\ pc' = "finally"
              /\ UNCHANGED <<exc, raises>>
         ELSE \* open, connect, starttls, login or send_message raises
              /\ emails' = emails
              /\ pc' = "finally"
              /\ exc' = "DeliveryError"
              /\ raises' = raises + 1
    /\ UNCHANGED <<config, reply, idx, attempt, card_name, csv_path, csv_paths,
                   zip_bound, tmpdir, disk, op, log, names, failedOp, zipCalls,
                   zipOk, delFailed>>
    /\ UNCHANGED totals

\* ---------- main, lines 170-175: the finally block ----------
\* The paths os.remove is called on: every recorded CSV path, and zip_path
\* when it is bound (otherwise the NameError is swallowed by the bare except)
CleanupTargetsNoZip == Range(csv_paths)

CleanupTargets ==
    Range(csv_paths) \cup (IF zip_bound THEN {ZipPath} ELSE {})

finally_unguarded ==
    /\ pc = "finally"
    /\ \E failing \in SUBSET (CleanupTargets \cap DOMAIN disk) :
         LET escapes == failing # {} \/ ~zip_bound IN
         /\ disk' = RemoveFiles(disk, CleanupTargets \ failing)
         /\ delFailed' = (failing # {})
         /\ exc' = IF escapes THEN "CleanupError" ELSE exc
         /\ raises' = IF escapes THEN raises + 1 ELSE raises
         /\ pc' = IF exc = "none" /\ ~escapes THEN "done" ELSE "failed"
    /\ attempt' = 0
    /\ op' = "none"
    /\ log' = <<>>
    /\ UNCHANGED <<config, reply, idx, card_name, csv_path, csv_paths,
                   zip_bound, tmpdir, names, failedOp,
                   zipCalls, zipOk, emailCalls, emails>>
    /\ UNCHANGED totals

finally ==
    /\ pc = "finally"
    /\ \E failing \in SUBSET (CleanupTargets \cap DOMAIN disk) :
         /\ disk' = RemoveFiles(disk, CleanupTargets \ failing)
         /\ delFailed' = (failing # {})
    /\ pc' = IF exc = "none" THEN "done" ELSE "failed"
    /\ attempt' = 0
    /\ op' = "none"
    /\ log' = <<>>
    /\ UNCHANGED <<config, reply, idx, card_name, csv_path, csv_paths,
                   zip_bound, exc, tmpdir, names, failedOp, raises,
                   zipCalls, zipOk, emailCalls, emails>>
    /\ UNCHANGED totals

Next ==
    \/ make_session
    \/ mkdtemp
    \/ for_next
    \/ get_card_name
    \/ name_resolved
    \/ download_card_csv
    \/ make_zip
    \/ send_email
    \/ finally

Spec == Init /\ [][Next]_vars

\* ---------- Derived notions ----------
Ended == pc \in {"done", "failed"}

InRetryLoop == pc \in {"get_card_name", "download_card_csv"}

\* The responses received by the retry loop entered last
Reqs == SelectSeq(log, LAMBDA e : e.ev = "req")

\* The waits slept by the retry loop entered last
Sleeps == SelectSeq(log, LAMBDA e : e.ev = "sleep")

\* The retry loop entered last is over (it returned or raised)
OpOver == op # "none" /\ ~InRetryLoop

\* The orchestrator state (spec 4.4) main is in
State ==
    CASE pc = "make_session" -> "Init"
      [] pc = "mkdtemp" -> "Authenticated"
      [] pc \in {"for", "get_card_name", "name_resolved", "download_card_csv"}
            -> "Downloading"
      [] pc = "make_zip" -> "Packaging"
      [] pc = "send_email" -> "Sending"
      [] pc = "finally" -> IF exc = "none" THEN "Done" ELSE "Failed"
      [] pc = "done" -> "Done"
      [] pc = "failed" -> "Failed"

\* ---------- Claims ----------

\* C1: once an error has left get_card_name or download_card_csv, send_email
\* is never called in the run, and when main has ended no archive file is on
\* disk.
C1_NoEmailNoArchiveAfterFailedFetch ==
    failedOp # "none" =>
        /\ emailCalls = 0
        /\ emails = <<>>
        /\ Ended => ZipPath \notin DOMAIN disk

\* C1 witness: the export of the second of two cards failed after the first
\* card was exported, and the run has ended.
C1_Witness ==
    /\ Ended
    /\ failedOp = "download_card_csv"
    /\ Len(cardIds) = 2
    /\ Len(csv_paths) = 1

\* C2 (as claimed): a 4xx response on the first attempt ends the retry loop at
\* once, with one request, no sleep and the error raised; and every response
\* that was followed by another attempt is a 5xx or a network error.
C2_4xxFatalImmediately ==
    /\ (Reqs # <<>> /\ Reqs[1].resp = "4xx") =>
          /\ Len(log) = 1
          /\ pc = "finally"
          /\ failedOp = op
    /\ \A i \in 1..(Len(Reqs) - 1) : Reqs[i].resp \in {"5xx", "neterr"}

\* C3: a retry loop that received only 5xx responses issues exactly 5 requests
\* and then raises once to main, which neither packages nor sends.
C3_Always5xxExactlyMaxAttempts ==
    /\ (Reqs # <<>> /\ \A i \in 1..Len(Reqs) : Reqs[i].resp = "5xx") =>
          /\ Len(Reqs) <= 5
          /\ InRetryLoop => Len(Reqs) < 5
          /\ OpOver =>
                /\ Len(Reqs) = 5
                /\ pc = "finally"
                /\ failedOp = op
                /\ exc = "RequestException"
                /\ raises = 1
    /\ failedOp # "none" =>
          /\ raises = 1
          /\ zipCalls = 0
          /\ emailCalls = 0
          /\ Ended => pc = "failed"

\* C3 witness: download_card_csv has just raised after five 5xx responses.
C3_Witness ==
    /\ pc = "finally"
    /\ op = "download_card_csv"
    /\ failedOp = "download_card_csv"
    /\ Len(Reqs) = 5
    /\ \A i \in 1..5 : Reqs[i].resp = "5xx"

\* C4: in a retry loop requests and sleeps alternate, the k-th sleep lasts
\* 3, 6, 12, 24 seconds for k = 1..4, every failed attempt but the fifth is
\* followed by exactly one sleep, and the attempt that ends the loop
\* (a success or the fifth failure) is followed by none.
C4_BackoffSequence ==
    /\ Len(Sleeps) <= 4
    /\ \A k \in 1..Len(Sleeps) : Sleeps[k].wait = <<3, 6, 12, 24>>[k]
    /\ \A i \in 1..Len(log) : log[i].ev = IF i % 2 = 1 THEN "req" ELSE "sleep"
    /\ InRetryLoop => Len(log) % 2 = 0
    /\ OpOver => log # <<>> /\ log[Len(log)].ev = "req"

\* C4 witness: a retry loop is over after five attempts and four sleeps.
C4_Witness ==
    /\ OpOver
    /\ Len(Reqs) = 5
    /\ Len(Sleeps) = 4

\* C5 (as claimed): after make_zip has succeeded the archive has one member
\* per card id, in order, the i-th named clean_filename(name of card i) plus
\* ".csv" and holding the export of card i.
C5_OneMemberPerCard ==
    (zipOk /\ ZipPath \in DOMAIN disk) =>
        LET m == disk[ZipPath].members IN
        /\ Len(m) = Len(cardIds)
        /\ \A i \in 1..Len(m) :
              /\ m[i].name = clean_filename(names[i]) \o <<".csv">>
              /\ m[i].card = cardIds[i]

\* C6 (as claimed): when main has ended and no deletion failed, no file of
\* the run is left on disk.
C6_NoFileRemains ==
    (Ended /\ ~delFailed) => DOMAIN disk = {}

\* C7 (as claimed): when main has ended the temporary directory is gone.
C7_TmpdirReleased ==
    Ended => ~tmpdir

\* C8 (as claimed): with SMTP credentials missing the run issues no HTTP
\* request and creates no temporary directory or file.
C8_MissingSmtpFatalAtStartup ==
    ~smtpCreds =>
        /\ httpRequests = 0
        /\ ~tmpdir
        /\ DOMAIN disk = {}

\* C9: with the API key missing, make_session raises and the run ends in
\* failure without a temporary directory, an HTTP request, an archive or an
\* email.
C9_MissingApiKeyNoSideEffect ==
    ~apiKey =>
        /\ pc \in {"make_session", "failed"}
        /\ pc = "failed" => exc = "RuntimeError"
        /\ ~tmpdir
        /\ DOMAIN disk = {}
        /\ httpRequests = 0
        /\ zipCalls = 0
        /\ emailCalls = 0
        /\ emails = <<>>

\* C9 witness: the run has failed for want of the API key.
C9_Witness ==
    /\ ~apiKey
    /\ pc = "failed"
    /\ exc = "RuntimeError"

StateOrder == <<"Init", "Authenticated", "Downloading", "Packaging", "Sending", "Done">>

\* A step of the orchestrator state machine: the next state in order, one more
\* card in Downloading, cleanup inside a terminal state, or a failure of a
\* non-terminal state
StateStep ==
    \/ \E i \in 1..5 : State = StateOrder[i] /\ State' = StateOrder[i + 1]
    \/ State = "Downloading" /\ State' = "Downloading"
    \/ State \in {"Done", "Failed"} /\ State' = State
    \/ State \notin {"Done", "Failed"} /\ State' = "Failed"

\* C10: main moves through Init, Authenticated, Downloading, Packaging,
\* Sending, Done in that order or fails into the absorbing Failed; make_zip is
\* reached and called only with every card exported, send_email only after
\* make_zip has succeeded.
C10_StateMachineOrder ==
    /\ [][StateStep]_vars
    /\ []((pc = "make_zip" \/ zipCalls > 0) =>
             (idx = Len(cardIds) /\ Len(csv_paths) = Len(cardIds)))
    /\ []((pc = "send_email" \/ emailCalls > 0) => zipOk)

\* C10 witness: a run over two cards has gone all the way to Done.
C10_Witness ==
    /\ pc = "done"
    /\ Len(cardIds) = 2
    /\ Len(emails) = 1

\* C11 (as claimed): when make_zip is called every listed path is a file on
\* disk written completely by an export of the run, one per card id; and the
\* archive send_email was called with holds, for every card id, a member with
\* that card's export.
C11_ArchiveHasEveryReport ==
    /\ pc = "make_zip" =>
          /\ Len(csv_paths) = Len(cardIds)
          /\ \A i \in 1..Len(csv_paths) :
                /\ csv_paths[i] \in DOMAIN disk
                /\ disk[csv_paths[i]].complete
    /\ (pc = "finally" /\ emailCalls > 0) =>
          /\ ZipPath \in DOMAIN disk
          /\ \A i \in 1..Len(cardIds) :
                \E k \in 1..Len(disk[ZipPath].members) :
                    disk[ZipPath].members[k].card = cardIds[i]

\* The decimal digits of a card id of the model (8266..8269), written out
IdText(id) ==
    <<"8", "2", "6",
      CASE id = 8266 -> "6" [] id = 8267 -> "7" [] id = 8268 -> "8" [] id = 8269 -> "9">>

\* C12 (as claimed): when the metadata response carries no name,
\* get_card_name returns "Report_<id>".
C12_FallbackIsReportId ==
    (pc = "name_resolved" /\ reply = NoName) =>
        card_name = <<"R", "e", "p", "o", "r", "t", "_">> \o IdText(cardIds[idx + 1])

\* C12 (amended): when the metadata response carries no name, get_card_name
\* returns "Card_<id>", and otherwise the name the response carries.
C12_FallbackIsCardId ==
    pc = "name_resolved" =>
        card_name = IF reply = NoName
                    THEN <<"C", "a", "r", "d", "_">> \o IdText(cardIds[idx + 1])
                    ELSE reply

\* C12 witness: get_card_name has returned for the second card, whose
\* metadata carried no name.
C12_Witness ==
    /\ pc = "name_resolved"
    /\ reply = NoName
    /\ idx = 1

\* The last card whose sanitized name equals that of card i: the card whose
\* export the file of card i holds when every export has succeeded
LastCardNamedLike(i) ==
    LET same == {j \in 1..Len(names) :
                    clean_filename(names[j]) = clean_filename(names[i])}
    IN  cardIds[CHOOSE j \in same : \A k \in same : k <= j]

\* C13: the members of the archive are a function of the run's inputs alone
\* (the card id list and the names the remote returned): member i is named
\* clean_filename(name i) plus ".csv", without the run's temporary directory,
\* and holds the export of the last card with that sanitized name.  Two runs
\* with the same inputs therefore build the same member names and set.
C13_MembersDeterminedByInputs ==
    (zipOk /\ ZipPath \in DOMAIN disk) =>
        disk[ZipPath].members =
            [i \in 1..Len(cardIds) |->
                [name |-> clean_filename(names[i]) \o <<".csv">>,
                 card |-> LastCardNamedLike(i),
                 complete |-> TRUE]]

\* C13 witness: an archive of two differently named cards has been built.
C13_Witness ==
    /\ pc = "send_email"
    /\ zipOk
    /\ Len(cardIds) = 2
    /\ Len(disk[ZipPath].members) = 2
    /\ disk[ZipPath].members[1].name # disk[ZipPath].members[2].name

\* A step that issues an HTTP request
IssuesRequest == httpRequests' # httpRequests

\* C14: cards are processed one at a time in CARD_IDS order.  idx counts the
\* cards exported and appended so far, in order; every request is issued for
\* card idx + 1: a metadata request only when exactly the first idx cards have
\* been resolved, exported and appended, an export request only once the
\* metadata fetch of that card has returned; and idx advances by one, only
\* through an export that succeeded and whose path was appended.
C14_StrictlySequential ==
    /\ [](/\ Len(csv_paths) = idx
          /\ idx <= Len(cardIds)
          /\ \A i \in 1..idx : csv_paths[i] = CsvPath(clean_filename(names[i]))
          /\ pc = "get_card_name" => Len(names) = idx /\ idx < Len(cardIds)
          /\ pc = "download_card_csv" =>
                /\ Len(names) = idx + 1
                /\ idx < Len(cardIds)
                /\ csv_path = CsvPath(clean_filename(names[idx + 1])))
    /\ [][/\ IssuesRequest => pc \in {"get_card_name", "download_card_csv"}
          /\ idx' # idx =>
                /\ idx' = idx + 1
                /\ pc = "download_card_csv"
                /\ Reqs'[Len(Reqs')].resp = "ok"
                /\ csv_paths' = Append(csv_paths, csv_path)
                /\ csv_path \in DOMAIN disk'
                /\ disk'[csv_path] = CsvFile(cardIds[idx + 1], TRUE)
          /\ (pc' = "get_card_name" /\ pc # "get_card_name") =>
                pc = "for" /\ Len(csv_paths) = idx]_vars

\* C14 witness: the first request for the second card has been issued, after
\* the first card was exported.
C14_Witness ==
    /\ pc = "get_card_name"
    /\ idx = 1
    /\ attempt = 1
    /\ Len(csv_paths) = 1

\* C15 (as claimed): make_zip and send_email are each called at most once;
\* after send_email has raised nothing is delivered, the run ends in failure
\* and the archive is gone when main has ended.
C15_OneArchiveOneEmail ==
    /\ zipCalls <= 1
    /\ emailCalls <= 1
    /\ exc = "DeliveryError" =>
          /\ emailCalls = 1
          /\ emails = <<>>
          /\ Ended => (pc = "failed" /\ ZipPath \notin DOMAIN disk)

\* C15 (amended): as above, except that the archive is gone when main has
\* ended unless an os.remove of the cleanup failed; cleanup always calls
\* os.remove on the archive.
C15_OneArchiveOneEmailBestEffort ==
    /\ zipCalls <= 1
    /\ emailCalls <= 1
    /\ exc = "DeliveryError" =>
          /\ emailCalls = 1
          /\ emails = <<>>
          /\ pc \in {"finally", "failed"}
          /\ pc = "finally" => ZipPath \in CleanupTargets
          /\ Ended => (pc = "failed" /\ (ZipPath \in DOMAIN disk => delFailed))

\* C15 witness: delivery failed although the SMTP settings were present, and
\* cleanup has removed every file.
C15_Witness ==
    /\ pc = "failed"
    /\ exc = "DeliveryError"
    /\ smtpCreds
    /\ ~delFailed
    /\ Len(cardIds) = 2

\* C16: the finally block raises nothing and leaves the outcome alone: it
\* ends in done exactly when no exception was propagating and in failed with
\* the same exception otherwise, whether or not a deletion failed and whether
\* or not zip_path was ever assigned; a run that ends in done has delivered
\* its email, a run that ends in failed carries the error that reached main.
C16_CleanupKeepsOutcome ==
    /\ [][pc = "finally" =>
            /\ exc' = exc
            /\ raises' = raises
            /\ pc' = IF exc = "none" THEN "done" ELSE "failed"]_vars
    /\ [](pc = "done" => (exc = "none" /\ raises = 0 /\ Len(emails) = 1))
    /\ [](pc = "failed" =>
            /\ exc \in {"RuntimeError", "OSError", "RequestException", "DeliveryError"}
            /\ raises <= 1
            /\ emails = <<>>)

\* C16 witness: a run failed in a retry loop before zip_path was assigned,
\* the deletion of an exported file failed, and the run ended with the
\* retry loop's error.
C16_Witness ==
    /\ pc = "failed"
    /\ ~zip_bound
    /\ delFailed
    /\ exc = "RequestException"
    /\ raises = 1

\* C17: in download_card_csv a response that passed raise_for_status is the
\* last request of the loop, followed by no sleep: the loop either returned or,
\* when the local write failed, raised OSError at once; that error reaches
\* main exactly once and the run ends in failure with make_zip and send_email
\* never called.
C17_LocalErrorFatal ==
    /\ (op = "download_card_csv" /\ \E i \in 1..Len(Reqs) : Reqs[i].resp = "ok") =>
          /\ \A i \in 1..Len(Reqs) : Reqs[i].resp = "ok" => i = Len(Reqs)
          /\ log[Len(log)].ev = "req"
          /\ pc \in {"for", "finally"}
          /\ pc = "finally" => (exc = "OSError" /\ failedOp = "download_card_csv")
    /\ (failedOp = "download_card_csv" /\ exc = "OSError") =>
          /\ pc \in {"finally", "failed"}
          /\ raises = 1
          /\ zipCalls = 0
          /\ emailCalls = 0
          /\ ~zip_bound

\* C17 witness: after one retried failure the second response was good, the
\* local write failed and the OSError has reached main.
C17_Witness ==
    /\ pc = "finally"
    /\ exc = "OSError"
    /\ failedOp = "download_card_csv"
    /\ Len(Reqs) = 2
    /\ Len(Sleeps) = 1

\* C18: when download_card_csv returns after k attempts it has issued exactly
\* k requests, the k-th is the only one answered successfully and it is the
\* last, k - 1 sleeps lie between them, and the destination holds the complete
\* export; an attempt whose request failed leaves every file as it was, and
\* the returning attempt writes the destination and nothing else.
C18_FirstSuccessEndsLoop ==
    /\ []((pc = "for" /\ op = "download_card_csv") =>
            /\ attempt \in 1..5
            /\ Len(Reqs) = attempt
            /\ Reqs[attempt].resp = "ok"
            /\ \A i \in 1..(attempt - 1) : Reqs[i].resp \in {"4xx", "5xx", "neterr"}
            /\ Len(Sleeps) = attempt - 1
            /\ log[Len(log)].ev = "req"
            /\ csv_paths[idx] = csv_path
            /\ csv_path \in DOMAIN disk
            /\ disk[csv_path] = CsvFile(cardIds[idx], TRUE))
    /\ [][pc = "download_card_csv" =>
            /\ Reqs'[Len(Reqs')].resp # "ok" => disk' = disk
            /\ pc' = "download_card_csv" => disk' = disk
            /\ pc' = "for" =>
                  /\ DOMAIN disk' = DOMAIN disk \cup {csv_path}
                  /\ \A f \in DOMAIN disk \ {csv_path} : disk'[f] = disk[f]]_vars

\* C18 witness: download_card_csv has returned on its fifth attempt.
C18_Witness ==
    /\ pc = "for"
    /\ op = "download_card_csv"
    /\ attempt = 5
    /\ Len(Reqs) = 5

\* The steps one card takes at most: the loop head, the attempts of the two
\* retry loops and the step between them
StepsPerCard == 2 * MAX_ATTEMPTS + 2

\* An upper bound on the steps main still takes; it is 0 when main has ended
StepsLeft ==
    LET cards == StepsPerCard * (Len(cardIds) - idx) IN
    CASE pc \in {"done", "failed"} -> 0
      [] pc = "finally" -> 1
      [] pc = "send_email" -> 2
      [] pc = "make_zip" -> 3
      [] pc = "for" -> 4 + cards
      [] pc = "get_card_name" -> 4 + cards - 1 - attempt
      [] pc = "name_resolved" -> 4 + cards - 1 - MAX_ATTEMPTS
      [] pc = "download_card_csv" -> 4 + cards - 2 - MAX_ATTEMPTS - attempt
      [] pc = "mkdtemp" -> 5 + StepsPerCard * Len(cardIds)
      [] pc = "make_session" -> 6 + StepsPerCard * Len(cardIds)

\* C19: every run ends in done or failed: main can always take a step until
\* it has ended, and every step lowers the bound StepsLeft, which is never
\* negative.  Each retry loop starts with attempt = 0 and issues one request
\* per attempt, at most 5, and one sleep less; a run over N cards issues at
\* most 2 * N * 5 requests and sleeps at most 2 * N * 4 times.
C19_TerminatesWithinBudget ==
    /\ [](Ended \/ ENABLED Next)
    /\ [](StepsLeft >= 0)
    /\ [][StepsLeft' < StepsLeft]_vars
    /\ [][(pc' # pc /\ pc' \in {"get_card_name", "download_card_csv"}) =>
             (attempt' = 0 /\ log' = <<>>)]_vars
    /\ [](op # "none" =>
             /\ Len(Reqs) = attempt
             /\ attempt <= 5
             /\ Len(Sleeps) <= 4)
    /\ [](/\ httpRequests <= 2 * Len(cardIds) * 5
          /\ sleepCount <= 2 * Len(cardIds) * 4)

\* C19 witness: a run over two cards has ended in done after every retry
\* loop used all five attempts: 20 requests and 16 sleeps.
C19_Witness ==
    /\ pc = "done"
    /\ Len(cardIds) = 2
    /\ httpRequests = 20
    /\ sleepCount = 16

====
